---------------------------- MODULE Spec2Model ----------------------------
(***************************************************************************)
(* Model of the customer segmentation engine of the retail dashboard:      *)
(* calculate_rfm_scores (components/customer_charts.py), its nested        *)
(* score_values and segment_customers.                                     *)
(*                                                                         *)
(* pandas operations are modelled by what they compute, in exact integer   *)
(* arithmetic: quantile edges are kept multiplied by 5 (the denominator of *)
(* the linear interpolation at q = j/5) and average ranks multiplied by 2. *)
(* A raised Python exception is the value [ok |-> FALSE, ...].             *)
(***************************************************************************)
EXTENDS Integers, Sequences, FiniteSets

(***************************************************************************)
(* Bounds of the model.                                                    *)
(***************************************************************************)
\* rows of a transaction table
MaxRows == 4
\* customers of a metric series handed to score_values
MaxSeries == 7
\* largest raw value of a metric in such a series
MaxValue == 4

\* customers of a transaction table
MaxCust == 3
\* timestamps in a day: InvoiceDate counts them
TicksPerDay == 2
\* largest InvoiceDate of the tables of SpecDays
MaxTick == 5
\* rows of the tables of SpecCohort
MaxCohortRows == 3
\* rows of the data file of SpecDash
MaxFileRows == 3
\* significant bits of a float
MantissaBits == 7
\* rows of the tables of SpecShuffle
MaxShuffleRows == 5
\* calls of the monitored functions
MaxCalls == 3
\* entries of the cache of create_customer_summary
MaxMemo == 2
\* rows of the data file of SpecCache
MaxCacheRows == 4

\* customer ids and line amounts of the transaction tables
CustomerIDs == 1..MaxCust
Amounts == {10, 20}

VARIABLES
    df,        \* the transaction table passed to calculate_rfm_scores
    phase,     \* "load": table being assembled, "done": calculate_rfm_scores ran
    result,    \* what calculate_rfm_scores produced: a table or an exception
    metric,    \* which column of rfm a series is: Recency, Frequency, Monetary
    series,    \* the pd.Series handed to score_values
    scored,    \* score_values has run on series
    scores,    \* what score_values produced: a series of ints or an exception
    rfmIn,     \* a row (R_Score, F_Score, M_Score) handed to segment_customers
    segOut,    \* the label segment_customers returned for it
    cohort,    \* what the cohort computation produced: a matrix or an exception
    dataset,   \* the module-level df of index.py, from load_initial_data
    store,     \* the data of filtered-data-store: None or a table as JSON
    tab,       \* the active tab of main-tabs
    view,      \* what the last callback did on the data now in the store
    passed,    \* the caller's DataFrame object: its columns and the dtype of InvoiceDate
    again,     \* what a second call of calculate_rfm_scores on the same table produced
    logged,    \* the log records score_values emitted
    memo,      \* the entries of the flask-caching cache of create_customer_summary
    segAlt,    \* the label get_segment of calculate_rfm_metrics returned for rfmIn
    operation_times,  \* DashboardMonitor.operation_times
    error_counts,     \* DashboardMonitor.error_counts
    calls      \* the calls of the monitored function so far, with their outcomes

vars == <<df, phase, result, metric, series, scored, scores, rfmIn, segOut, cohort,
          dataset, store, tab, view, passed, again, logged, memo, segAlt,
          operation_times, error_counts, calls>>

\* the caller's frame and the second call of calculate_rfm_scores
frameVars == <<passed, again>>

\* the variables of the DashboardMonitor
monVars == <<operation_times, error_counts, calls>>

\* the log of score_values, the cache, the second classifier and the monitor
auxVars == <<logged, memo, segAlt, monVars>>

\* the variables of the dashboard
dashVars == <<dataset, store, tab, view>>

\* the variables of score_values and of segment_customers
scoreVars == <<metric, series, scored, scores>>
segVars == <<rfmIn, segOut>>

(***************************************************************************)
(* Helpers on series (sequences of integers).                              *)
(***************************************************************************)
Range(s) == {s[i] : i \in DOMAIN s}

Neg(s) == [i \in DOMAIN s |-> 0 - s[i]]

\* float NaN; every modelled quantity that can be NaN is otherwise >= 0
NaN == 0 - 1

SetMax(S) == CHOOSE v \in S : \A w \in S : w <= v

HasNaN(s) == \E i \in DOMAIN s : s[i] = NaN

\* the k-th smallest element (k from 0) of s, as in a sorted copy of s
KthSmallest(s, k) ==
    CHOOSE v \in Range(s) :
        /\ Cardinality({i \in DOMAIN s : s[i] < v}) <= k
        /\ k < Cardinality({i \in DOMAIN s : s[i] <= v})

\* numpy round(): nearest integer of num/den (num >= 0, den > 0), halves to even
RoundHalfEven(num, den) ==
    LET q == num \div den
        r2 == 2 * (num % den)
    IN  IF r2 < den THEN q
        ELSE IF r2 > den THEN q + 1
        ELSE IF q % 2 = 0 THEN q ELSE q + 1

Clip(x, lo, hi) == IF x = NaN THEN NaN ELSE IF x < lo THEN lo ELSE IF x > hi THEN hi ELSE x

(***************************************************************************)
(* Series.rank                                                             *)
(***************************************************************************)
\* series.rank(method='dense', ascending=ascending)
DenseRank(s, ascending) ==
    [i \in DOMAIN s |->
        IF ascending THEN Cardinality({v \in Range(s) : v <= s[i]})
                     ELSE Cardinality({v \in Range(s) : v >= s[i]})]

\* series.rank(pct=True, ascending=ascending), method='average': the average
\* rank of the tie group divided by the length; kept multiplied by 2 * Len(s)
PctRank2(s, ascending) ==
    [i \in DOMAIN s |->
        LET before == IF ascending
                      THEN Cardinality({j \in DOMAIN s : s[j] < s[i]})
                      ELSE Cardinality({j \in DOMAIN s : s[j] > s[i]})
            ties == Cardinality({j \in DOMAIN s : s[j] = s[i]})
        IN  2 * before + ties + 1]

(***************************************************************************)
(* pd.qcut(x, q=5, labels=labels, duplicates=...)                          *)
(***************************************************************************)
\* 5 * x.quantile(j/5), linear interpolation at position (j/5) * (n-1)
QuantileEdge5(s, j) ==
    LET pos == j * (Len(s) - 1)
        i == pos \div 5
        r == pos % 5
        lo == KthSmallest(s, i)
        hi == IF r = 0 THEN lo ELSE KthSmallest(s, i + 1)
    IN  5 * lo + r * (hi - lo)

Bins5(s) == [k \in 1..6 |-> QuantileEdge5(s, k - 1)]

EdgesCollide(s) == \E k \in 1..5 : Bins5(s)[k] = Bins5(s)[k + 1]

\* algos.unique(bins) of a non-decreasing sequence of bin edges
RECURSIVE UniqueBins(_)
UniqueBins(b) ==
    IF Len(b) <= 1 THEN b
    ELSE LET rest == UniqueBins(Tail(b))
         IN  IF Head(b) = Head(rest) THEN rest ELSE <<Head(b)>> \o rest

\* bins.searchsorted(x, side='left') with include_lowest: the index of the
\* bin (lo, hi] holding x, the lowest edge included in bin 1; NaN outside
BinOf(bins, x5) ==
    IF x5 < bins[1] \/ x5 > bins[Len(bins)] THEN NaN
    ELSE IF x5 = bins[1] THEN 1
    ELSE (CHOOSE k \in 2..Len(bins) : bins[k - 1] < x5 /\ x5 <= bins[k]) - 1

\* ok = FALSE: ValueError ("Bin edges must be unique", or "Bin labels must be
\* one fewer than the number of bin edges")
Qcut(s, labels, dropDuplicates) ==
    LET raw == Bins5(s)
        uniq == UniqueBins(raw)
        bins == IF Len(uniq) < Len(raw) THEN uniq ELSE raw
    IN  IF Len(uniq) < Len(raw) /\ ~dropDuplicates
        THEN [ok |-> FALSE, val |-> <<>>]
        ELSE IF Len(labels) # Len(bins) - 1
        THEN [ok |-> FALSE, val |-> <<>>]
        ELSE [ok |-> TRUE,
              val |-> [i \in DOMAIN s |->
                          LET b == BinOf(bins, 5 * s[i])
                          IN  IF b = NaN THEN NaN ELSE labels[b]]]

\* scores.astype(int): IntCastingNaNError (a ValueError) when a value is NaN
AsTypeInt(s) ==
    IF HasNaN(s) THEN [ok |-> FALSE, val |-> <<>>] ELSE [ok |-> TRUE, val |-> s]

FillNa(s, v) == [i \in DOMAIN s |-> IF s[i] = NaN THEN v ELSE s[i]]

(***************************************************************************)
(* score_values                                                            *)
(***************************************************************************)
NUnique(s) == Cardinality(Range(s))

\* branch "len(series.unique()) < 5": dense ranks scaled onto 1..5
DenseScores(s, ascending) ==
    LET ranks == DenseRank(s, ascending)
        max_rank == SetMax(Range(ranks))
        scaled == [i \in DOMAIN s |->
                     IF max_rank = 1 THEN NaN      \* 0.0 / 0.0
                     ELSE RoundHalfEven(4 * (ranks[i] - 1), max_rank - 1) + 1]
    IN  AsTypeInt([i \in DOMAIN s |-> Clip(scaled[i], 1, 5)])

\* the try block with the labels of the Recency call used for both directions
QuantileScoresSameLabels(s, ascending) ==
    LET cut == IF ascending THEN Qcut(s, <<5, 4, 3, 2, 1>>, FALSE)
                            ELSE Qcut(Neg(s), <<5, 4, 3, 2, 1>>, FALSE)
    IN  IF cut.ok THEN AsTypeInt(cut.val) ELSE cut

\* the try block
QuantileScores(s, ascending) ==
    LET cut == IF ascending THEN Qcut(s, <<1, 2, 3, 4, 5>>, FALSE)
                            ELSE Qcut(Neg(s), <<5, 4, 3, 2, 1>>, FALSE)
    IN  IF cut.ok THEN AsTypeInt(cut.val) ELSE cut

\* the except ValueError block
RankFallbackScores(s, ascending) ==
    LET ranks == PctRank2(s, ascending)
        cut == Qcut(ranks, <<1, 2, 3, 4, 5>>, TRUE)
    IN  IF cut.ok THEN AsTypeInt(FillNa(cut.val, 3)) ELSE cut

score_values(s, ascending) ==
    IF NUnique(s) < 5 THEN DenseScores(s, ascending)
    ELSE LET q == QuantileScores(s, ascending)
         IN  IF q.ok THEN q ELSE RankFallbackScores(s, ascending)

\* the branch score_values takes: the dense ranks of a series of fewer than
\* five distinct values, the quantile cut, or the percentile ranks after the
\* quantile cut raised ValueError
ScorePath(s, ascending) ==
    IF NUnique(s) < 5 THEN "dense"
    ELSE IF QuantileScores(s, ascending).ok THEN "qcut"
    ELSE "rank"

\* the log records score_values emits on its way: no branch calls a logger,
\* prints or warns
score_values_log(s, ascending) == <<>>

(***************************************************************************)
(* segment_customers                                                       *)
(***************************************************************************)
\* segment_customers with the Champions rule not testing m
segment_customers_loose(r, f, m) ==
    IF r >= 4 /\ f >= 4 THEN "Champions"
    ELSE IF r >= 3 /\ f >= 3 /\ m >= 3 THEN "Loyal Customers"
    ELSE IF r >= 3 /\ f >= 1 /\ m >= 2 THEN "Active Customers"
    ELSE IF r >= 2 /\ f >= 2 /\ m >= 2 THEN "Regular Customers"
    ELSE IF r >= 2 /\ f >= 1 THEN "New Customers"
    ELSE "At Risk"

\* segment_customers with the rule of the Regular Customers tried before
\* the rule of the Active Customers
segment_customers_regular_first(r, f, m) ==
    IF r >= 4 /\ f >= 4 /\ m >= 4 THEN "Champions"
    ELSE IF r >= 3 /\ f >= 3 /\ m >= 3 THEN "Loyal Customers"
    ELSE IF r >= 2 /\ f >= 2 /\ m >= 2 THEN "Regular Customers"
    ELSE IF r >= 3 /\ f >= 1 /\ m >= 2 THEN "Active Customers"
    ELSE IF r >= 2 /\ f >= 1 THEN "New Customers"
    ELSE "At Risk"

segment_customers(r, f, m) ==
    IF r >= 4 /\ f >= 4 /\ m >= 4 THEN "Champions"
    ELSE IF r >= 3 /\ f >= 3 /\ m >= 3 THEN "Loyal Customers"
    ELSE IF r >= 3 /\ f >= 1 /\ m >= 2 THEN "Active Customers"
    ELSE IF r >= 2 /\ f >= 2 /\ m >= 2 THEN "Regular Customers"
    ELSE IF r >= 2 /\ f >= 1 THEN "New Customers"
    ELSE "At Risk"

\* get_segment of RetailCalculations.calculate_rfm_metrics
get_segment(r, f, m) ==
    IF r >= 4 /\ f >= 4 /\ m >= 4 THEN "Champions"
    ELSE IF r >= 3 /\ f >= 3 /\ m >= 3 THEN "Loyal Customers"
    ELSE IF r >= 3 THEN "Recent Customers"
    ELSE IF f >= 3 THEN "Regular Customers"
    ELSE IF m >= 3 THEN "Big Spenders"
    ELSE "Lost Customers"

(***************************************************************************)
(* calculate_rfm_scores                                                    *)
(***************************************************************************)
\* the elements of a finite set of integers in increasing order
SortSet(S) ==
    [k \in 1..Cardinality(S) |->
        CHOOSE v \in S : Cardinality({w \in S : w < v}) = k - 1]

\* TotalAmount is a float64 column.  A float of the model is an integer with
\* at most MantissaBits significant bits (float64 has 53); the result of
\* an addition or subtraction is rounded to the nearest float, ties to even.
RECURSIVE Exponent(_)
Exponent(x) == IF x < 2^MantissaBits THEN 0 ELSE 1 + Exponent(x \div 2)

RoundToFloat(x) ==
    LET e == Exponent(x)
        unit == 2^e
        q == x \div unit
        r == x % unit
    IN  IF e = 0 THEN x
        ELSE IF 2 * r > unit \/ (2 * r = unit /\ q % 2 = 1) THEN (q + 1) * unit
        ELSE q * unit

Fl(x) == IF x < 0 THEN 0 - RoundToFloat(0 - x) ELSE RoundToFloat(x)

\* the sum of a group as pandas' group_sum accumulates it: the rows of the
\* group in the order of the table, with Kahan's compensation
RECURSIVE GroupSum(_, _, _, _, _)
GroupSum(d, idx, i, sumx, compensation) ==
    IF i > Len(d) THEN sumx
    ELSE IF i \notin idx THEN GroupSum(d, idx, i + 1, sumx, compensation)
    ELSE LET y == Fl(d[i].TotalAmount - compensation)
             t == Fl(sumx + y)
         IN  GroupSum(d, idx, i + 1, t, Fl(Fl(t - sumx) - y))

SumAmounts(d, idx) == GroupSum(d, idx, 1, 0, 0)

\* one key per row of df instead of one per group
GroupKeysPerRow(d) == [i \in DOMAIN d |-> d[i].CustomerID]

\* a missing CustomerID (NaN)
Null == 0

\* df.groupby('CustomerID'): one group per distinct key, keys sorted, the
\* rows without a key dropped
GroupKeys(d) == SortSet({d[i].CustomerID : i \in DOMAIN d} \ {Null})

RowsOf(d, c) == {i \in DOMAIN d : d[i].CustomerID = c}

\* today = df['InvoiceDate'].max()
Today(d) == SetMax({d[i].InvoiceDate : i \in DOMAIN d})

\* Timedelta.days of a non-negative difference of timestamps: whole days
Days(delta) == delta \div TicksPerDay

\* the lambda with x.min() in place of x.max()
RecencyOfFirst(d, c) ==
    Days(Today(d) - (0 - SetMax({0 - d[i].InvoiceDate : i \in RowsOf(d, c)})))

\* lambda x: (today - x.max()).days
RecencyOf(d, c) ==
    Days(Today(d) - SetMax({d[i].InvoiceDate : i \in RowsOf(d, c)}))

\* 'InvoiceNo': 'count' in place of 'nunique'
FrequencyOfCount(d, c) == Cardinality(RowsOf(d, c))

\* 'InvoiceNo': 'nunique'
FrequencyOf(d, c) == Cardinality({d[i].InvoiceNo : i \in RowsOf(d, c)})

\* 'TotalAmount': 'sum'
MonetaryOf(d, c) == SumAmounts(d, RowsOf(d, c))

\* rfm after the aggregation and the renaming of its columns
Aggregate(d) ==
    LET keys == GroupKeys(d)
    IN  [k \in DOMAIN keys |->
            [CustomerID |-> keys[k],
             Recency |-> RecencyOf(d, keys[k]),
             Frequency |-> FrequencyOf(d, keys[k]),
             Monetary |-> MonetaryOf(d, keys[k])]]

Column(rfm, name) == [k \in DOMAIN rfm |-> rfm[k][name]]

\* the ValueError of astype(int) on NaN, and of line 128 on a table of no
\* rows
Raised == [ok |-> FALSE, err |-> "ValueError", rfm |-> <<>>]

\* on a table of no rows, or of no row with a CustomerID, the aggregation
\* and the three scorings give empty columns; rfm.apply(segment_customers, axis=1) on the empty frame returns a
\* frame, and its assignment to the one column Customer_Segment raises
calculate_rfm_scores(d) ==
    LET rfm == Aggregate(d)
        R == score_values(Column(rfm, "Recency"), FALSE)
        F == score_values(Column(rfm, "Frequency"), TRUE)
        M == score_values(Column(rfm, "Monetary"), TRUE)
    IN  IF rfm = <<>> THEN Raised
        ELSE IF ~R.ok THEN Raised
        ELSE IF ~F.ok THEN Raised
        ELSE IF ~M.ok THEN Raised
        ELSE [ok |-> TRUE,
              err |-> "",
              rfm |-> [k \in DOMAIN rfm |->
                  [CustomerID |-> rfm[k].CustomerID,
                   Recency |-> rfm[k].Recency,
                   Frequency |-> rfm[k].Frequency,
                   Monetary |-> rfm[k].Monetary,
                   R_Score |-> R.val[k],
                   F_Score |-> F.val[k],
                   M_Score |-> M.val[k],
                   RFM_Score |-> <<R.val[k], F.val[k], M.val[k]>>,
                   Customer_Segment |->
                       segment_customers(R.val[k], F.val[k], M.val[k]),
                   Recency_Days |-> rfm[k].Recency,
                   Purchase_Frequency |-> rfm[k].Frequency,
                   Total_Revenue |-> rfm[k].Monetary]]]

(***************************************************************************)
(* get_cohort_data and update_cohort_analysis                              *)
(*                                                                         *)
(* A cell of a matrix is null (NaN) or the rational num / den.             *)
(***************************************************************************)
\* the day of the year on which each month of a 365-day year starts
MonthStarts == <<0, 31, 59, 90, 120, 151, 181, 212, 243, 273, 304, 334>>

\* dt.to_period('M'): the ordinal year * 12 + month of a timestamp
ToPeriodM(t) ==
    LET day == t \div TicksPerDay
        doy == day % 365
    IN  12 * (day \div 365) + Cardinality({k \in 1..12 : MonthStarts[k] <= doy})

SetMin(S) == CHOOSE v \in S : \A w \in S : v <= w

\* the month of the customer's last invoice in place of the first
CohortMonthOfLast(d, c) == ToPeriodM(SetMax({d[i].InvoiceDate : i \in RowsOf(d, c)}))

\* df.groupby('CustomerID')['InvoiceDate'].min(), then dt.to_period('M')
CohortMonth(d, c) == ToPeriodM(SetMin({d[i].InvoiceDate : i \in RowsOf(d, c)}))

\* the elapsed days divided by 30 in place of the difference of the periods
MonthsByThirtyDays(d, i) ==
    ((d[i].InvoiceDate - SetMin({d[j].InvoiceDate : j \in RowsOf(d, d[i].CustomerID)}))
        \div TicksPerDay) \div 30

\* the difference of the periods taken the other way round
MonthsBeforeFirstPurchase(d, i) ==
    CohortMonth(d, d[i].CustomerID) - ToPeriodM(d[i].InvoiceDate)

\* df['InvoiceDate'].dt.to_period('M') - df['CohortMonth'], as an integer
MonthsFromFirstPurchase(d, i) ==
    ToPeriodM(d[i].InvoiceDate) - CohortMonth(d, d[i].CustomerID)

NullCell == [null |-> TRUE, num |-> 0, den |-> 1]

\* aggfunc 'count' in place of 'nunique'
CellValueCount(d, idx, values) ==
    IF values = "TotalAmount" THEN SumAmounts(d, idx) ELSE Cardinality(idx)

\* aggfunc of the crosstab over the rows idx of d
CellValue(d, idx, values) ==
    IF values = "CustomerID" THEN Cardinality({d[i].CustomerID : i \in idx})
    ELSE IF values = "InvoiceNo" THEN Cardinality({d[i].InvoiceNo : i \in idx})
    ELSE SumAmounts(d, idx)

\* a crosstab that fills the cells without data with 0
CrosstabZeroFilled(d, values) ==
    LET rows == {CohortMonth(d, d[i].CustomerID) : i \in DOMAIN d}
        cols == {MonthsFromFirstPurchase(d, i) : i \in DOMAIN d}
    IN  [rows |-> rows, cols |-> cols,
         cell |-> [r \in rows, k \in cols |->
             LET idx == {i \in DOMAIN d :
                            /\ CohortMonth(d, d[i].CustomerID) = r
                            /\ MonthsFromFirstPurchase(d, i) = k}
             IN  [null |-> FALSE, num |-> CellValue(d, idx, values), den |-> 1]]]

\* pd.crosstab(df['CohortMonth'], df['MonthsFromFirstPurchase'], values=...,
\* aggfunc=...): one row per cohort, one column per offset that occurs, NaN
\* where no row of df has the pair
Crosstab(d, values) ==
    LET rows == {CohortMonth(d, d[i].CustomerID) : i \in DOMAIN d}
        cols == {MonthsFromFirstPurchase(d, i) : i \in DOMAIN d}
    IN  [rows |-> rows, cols |-> cols,
         cell |-> [r \in rows, k \in cols |->
             LET idx == {i \in DOMAIN d :
                            /\ CohortMonth(d, d[i].CustomerID) = r
                            /\ MonthsFromFirstPurchase(d, i) = k}
             IN  IF idx = {} THEN NullCell
                 ELSE [null |-> FALSE, num |-> CellValue(d, idx, values), den |-> 1]]]

\* the division by the total of the row in place of its offset-0 cell
\* (every empty cell counts 0)
DivByRowTotal(m) ==
    [rows |-> m.rows, cols |-> m.cols,
     cell |-> [r \in m.rows, k \in m.cols |->
         IF m.cell[r, k].null THEN NullCell
         ELSE [null |-> FALSE, num |-> 100 * m.cell[r, k].num,
               den |-> LET RECURSIVE Total(_)
                           Total(S) == IF S = {} THEN 0
                                       ELSE LET c == CHOOSE c \in S : TRUE
                                            IN  m.cell[r, c].num + Total(S \ {c})
                       IN  Total(m.cols)]]]

\* cohort_data.div(cohort_sizes, axis=0) * 100 with cohort_sizes = cohort_data[0]
DivBySizes(m) ==
    [rows |-> m.rows, cols |-> m.cols,
     cell |-> [r \in m.rows, k \in m.cols |->
         IF m.cell[r, k].null \/ m.cell[r, 0].null THEN NullCell
         ELSE [null |-> FALSE, num |-> 100 * m.cell[r, k].num,
               den |-> m.cell[r, 0].num]]]

NoMatrix == [rows |-> {}, cols |-> {}, cell |-> <<>>]
NoCohort == [fn |-> "", values |-> "", ok |-> TRUE, err |-> "", matrix |-> NoMatrix]
CohortRaised(fn, values, err) ==
    [fn |-> fn, values |-> values, ok |-> FALSE, err |-> err, matrix |-> NoMatrix]

\* df.merge(customer_first_purchase[['CustomerID', 'CohortMonth']],
\* on='CustomerID'): the rows of a customer with a first purchase
HasCustomer(row) == row.CustomerID # Null
Merged(d) == SelectSeq(d, HasCustomer)

\* lines 659-668 and 134-154: the crosstab and its normalisation;
\* cohort_data[0] raises KeyError when no column 0 exists
RetentionMatrix(fn, d, values) ==
    LET m == Crosstab(d, values)
    IN  IF 0 \notin m.cols THEN CohortRaised(fn, values, "KeyError")
        ELSE [fn |-> fn, values |-> values, ok |-> TRUE, err |-> "",
              matrix |-> DivBySizes(m)]

\* what get_cohort_data(df) can produce.  The difference of two period
\* columns is a column of integers in pandas before 0.24 and a column of
\* offset objects since, on which astype(int) raises TypeError.
get_cohort_data(d) ==
    {RetentionMatrix("get_cohort_data", Merged(d), "CustomerID")}
    \cup IF Merged(d) = <<>> THEN {}
         ELSE {CohortRaised("get_cohort_data", "CustomerID", "TypeError")}

CohortMetrics == {"retention", "revenue", "frequency"}

ValuesOf(m) ==
    IF m = "retention" THEN "CustomerID"
    ELSE IF m = "revenue" THEN "TotalAmount"
    ELSE "InvoiceNo"

\* what update_cohort_analysis(filtered_data, metric) can produce for a
\* filtered_data that is not None.  pd.read_json converts a column to dates
\* by its name; where 'InvoiceDate' stays a column of strings the .dt
\* accessor raises AttributeError.
update_cohort_analysis(d, m) ==
    {RetentionMatrix("update_cohort_analysis", Merged(d), ValuesOf(m)),
     CohortRaised("update_cohort_analysis", ValuesOf(m), "AttributeError")}
    \cup IF Merged(d) = <<>> THEN {}
         ELSE {CohortRaised("update_cohort_analysis", ValuesOf(m), "TypeError")}

(***************************************************************************)
(* The dashboard: load_initial_data, the filtered-data store and the       *)
(* callbacks that read it.                                                 *)
(***************************************************************************)
\* the lines a data file can hold: a sale to customer 1 or 2, a return
\* (Quantity <= 0), a free sample (UnitPrice 0), a sale without CustomerID
FileKinds == {"sale1", "sale2", "return", "sample", "guest"}

\* days between two lines of the data file
DayGap == 40

Countries == {"United Kingdom", "France"}

\* line i of the file, before TotalAmount is added
FileRow(i, kind) ==
    [InvoiceNo |-> i,
     CustomerID |-> IF kind = "guest" THEN Null ELSE IF kind = "sale2" THEN 2 ELSE 1,
     InvoiceDate |-> (i - 1) * DayGap * TicksPerDay,
     Quantity |-> IF kind = "return" THEN 0 - 1 ELSE 1,
     UnitPrice |-> IF kind = "sample" THEN 0 ELSE 10,
     Country |-> IF kind = "sale2" THEN "France" ELSE "United Kingdom"]

\* the data files: no readable file or no line, or up to MaxFileRows lines
\* of which the first is a sale to customer 1
Files ==
    UNION {{[i \in 1..n |-> FileRow(i, ks[i])] :
                ks \in {k \in [1..n -> FileKinds] : n > 0 => k[1] = "sale1"}} :
           n \in 0..MaxFileRows}

\* validate_dataframe: False for an empty frame; rows with Quantity <= 0 or
\* UnitPrice <= 0 are logged as a warning and kept; CustomerID is not looked
\* at
validate_dataframe(file) == file # <<>>

\* load_initial_data: the frame of the file with the column TotalAmount, or
\* the empty frame when validation fails
load_initial_data(file) ==
    IF ~validate_dataframe(file) THEN <<>>
    ELSE [i \in DOMAIN file |->
             [InvoiceNo |-> file[i].InvoiceNo,
              CustomerID |-> file[i].CustomerID,
              InvoiceDate |-> file[i].InvoiceDate,
              Quantity |-> file[i].Quantity,
              UnitPrice |-> file[i].UnitPrice,
              Country |-> file[i].Country,
              TotalAmount |-> file[i].Quantity * file[i].UnitPrice]]

\* the data of the store: None, or df.to_json(date_format='iso',
\* orient='split') with the rows under 'data'
None == [none |-> TRUE, data |-> <<>>]
to_json(d) == [none |-> FALSE, data |-> d]
read_json(j) == j.data

\* initial_filtered_data of index.py
initial_filtered_data(d) == IF d = <<>> THEN None ELSE to_json(d)

\* the inputs that trigger update_filtered_data; with prevent_initial_call
\* one of them always has
QuickRanges == {"last-30-days", "last-quarter", "ytd", "all-time"}
Filters == {"date-filter", "country-filter"}

\* the values of country-filter: no country, or one of the dataset
CountryChoices == {{}} \cup {{c} : c \in Countries}

\* df['InvoiceDate'].min() and .max(); the layout uses the time of the load
\* for a frame without rows
MinDate(d) == IF d = <<>> THEN 0 ELSE SetMin({d[i].InvoiceDate : i \in DOMAIN d})
MaxDate(d) == IF d = <<>> THEN 0 ELSE SetMax({d[i].InvoiceDate : i \in DOMAIN d})

\* end_date.replace(month=1, day=1): 1 January of the year, the time of day
\* kept
ReplaceMonthDay(t) ==
    ((t \div TicksPerDay) \div 365) * 365 * TicksPerDay + (t % TicksPerDay)

\* the days of pd.Timedelta(days=30) and pd.Timedelta(days=90)
Last30Days == 30
LastQuarterDays == 90

\* start_date and end_date after the quick-range branches
StartDate(d, trigger, start) ==
    IF trigger = "last-30-days" THEN MaxDate(d) - Last30Days * TicksPerDay
    ELSE IF trigger = "last-quarter" THEN MaxDate(d) - LastQuarterDays * TicksPerDay
    ELSE IF trigger = "ytd" THEN ReplaceMonthDay(MaxDate(d))
    ELSE IF trigger = "all-time" THEN MinDate(d)
    ELSE start

EndDate(d, trigger, end) == IF trigger \in QuickRanges THEN MaxDate(d) ELSE end

\* df[mask]
Masked(d, start, end, countries) ==
    LET Keep(row) == /\ row.InvoiceDate >= start
                     /\ row.InvoiceDate <= end
                     /\ (countries # {} => row.Country \in countries)
    IN  SelectSeq(d, Keep)

\* what update_filtered_data returns for the store.  A frame without
\* columns makes df['InvoiceDate'] raise: in a quick-range branch the
\* callback fails and the store keeps its data, in the try block None is
\* returned.
update_filtered_data(d, old, trigger, start, end, countries) ==
    IF trigger = "" THEN initial_filtered_data(d)
    ELSE IF d = <<>> THEN (IF trigger \in QuickRanges THEN old ELSE None)
    ELSE to_json(Masked(d, StartDate(d, trigger, start), EndDate(d, trigger, end),
                        countries))

\* the dates the date picker offers: midnights between min_date_allowed and
\* max_date_allowed
PickDates(d) ==
    IF d = <<>> THEN {0}
    ELSE {k * (DayGap \div 2) * TicksPerDay : k \in 0..(2 * (Len(d) - 1))}

(***************************************************************************)
(* update_filtered_data of callbacks/filter_callbacks.py.  It takes the    *)
(* data of the store as State, so the frame it filters is the one an       *)
(* earlier filter left.  read_json does not parse the column InvoiceDate   *)
(* (its name is not one of the date-like names), so the column holds the   *)
(* ISO text of the timestamps and is compared as text.                     *)
(***************************************************************************)
\* the inputs of the callback that can trigger it; "" is a call in which
\* ctx.triggered is empty
FilterTriggers == QuickRanges \cup {"date-filter", "country-filter", "category-filter"}

\* df = pd.read_json(current_data, orient='split'), the module-level frame d
\* of index.py not being looked at
FullDataset(d, current_data) == d
LoadCurrent(d, current_data) == read_json(current_data)

\* a date of the picker ('YYYY-MM-DD') against the ISO text of a timestamp
\* ('YYYY-MM-DDThh:mm:ss.000'): the text of the day is a proper prefix of
\* the text of a timestamp of that day, and so is less than it
PickerLE(p, t) == p \div TicksPerDay <= t \div TicksPerDay
TextLEPicker(t, p) == t \div TicksPerDay < p \div TicksPerDay

\* df[mask] with the date mask on text
MaskedText(rows, start, end, countries) ==
    LET Keep(row) == /\ PickerLE(start, row.InvoiceDate)
                     /\ TextLEPicker(row.InvoiceDate, end)
                     /\ (countries # {} => row.Country \in countries)
    IN  SelectSeq(rows, Keep)

\* df[mask] of the all-time branch: start and end are the least and the
\* greatest text of the column itself
MaskedAllTime(rows, countries) ==
    LET Keep(row) == /\ MinDate(rows) <= row.InvoiceDate
                     /\ row.InvoiceDate <= MaxDate(rows)
                     /\ (countries # {} => row.Country \in countries)
    IN  SelectSeq(rows, Keep)

FilterRaised(err) == [raised |-> TRUE, err |-> err, data |-> None]
FilterReturned(j) == [raised |-> FALSE, err |-> "", data |-> j]

\* what the callback does with the store current_data.  start and end are
\* dates of the picker, or Unset (None).  No column Category exists, so
\* the category mask is never applied.
Unset == 0 - 1
filter_update_filtered_data(d, current_data, trigger, start, end, countries) ==
    IF trigger = "" THEN FilterReturned(current_data)
    ELSE IF current_data.none THEN FilterRaised("ValueError")
    ELSE LET rows == LoadCurrent(d, current_data)
         IN  IF trigger \in {"last-30-days", "last-quarter"}
             THEN FilterRaised("TypeError")      \* text - timedelta
             ELSE IF trigger = "ytd"
             THEN IF rows = <<>> THEN FilterReturned(to_json(rows))
                  ELSE FilterRaised("TypeError")  \* text >= datetime
             ELSE IF trigger = "all-time"
             THEN FilterReturned(to_json(MaskedAllTime(rows, countries)))
             ELSE IF rows # <<>> /\ (start = Unset \/ end = Unset)
             THEN FilterRaised("TypeError")      \* text >= None
             ELSE FilterReturned(to_json(MaskedText(rows, start, end, countries)))

Tabs == {"overview-tab", "customers-tab"}

\* what a callback did: its name, what it returned, and the functions of
\* the engine it called on the table df
NoView == [caller |-> "", out |-> "", engine |-> {}]

(***************************************************************************)
(* The DataFrame object of the caller.  A DataFrame is a mutable object:   *)
(* an assignment to a column inside a function lands on the caller's       *)
(* object unless the function first rebinds its parameter to a copy.  The  *)
(* object is described by its columns and the dtype of InvoiceDate: text   *)
(* ("object", as read_json leaves it) or "datetime64[ns]".                 *)
(***************************************************************************)
Columns == {"InvoiceNo", "CustomerID", "InvoiceDate", "TotalAmount"}
Dtypes == {"object", "datetime64[ns]"}
Frame(dtype) == [columns |-> Columns, InvoiceDate |-> dtype]

\* frame['InvoiceDate'] = pd.to_datetime(frame['InvoiceDate'])
AssignToDatetime(frame) ==
    [frame EXCEPT !.columns = @ \cup {"InvoiceDate"}, !.InvoiceDate = "datetime64[ns]"]

\* the caller's object after calculate_rfm_scores: df = df.copy() rebinds the
\* parameter, and the assignment of the next line lands on the copy
rfm_caller_frame_no_copy(frame) == AssignToDatetime(frame)
rfm_caller_frame(frame) ==
    LET copy == frame
        local == AssignToDatetime(copy)
    IN  frame

\* the caller's object after get_cohort_data: the assignment is made on the
\* parameter itself; df.merge then rebinds the name, and the columns
\* CohortMonth and MonthsFromFirstPurchase are added to the merged frame
cohort_caller_frame(frame) == AssignToDatetime(frame)

(***************************************************************************)
(* Specification Spec: a transaction table is assembled row by row, in     *)
(* the chronological order of the dataset, and calculate_rfm_scores is     *)
(* then called on it.                                                      *)
(***************************************************************************)
NoResult == [ok |-> TRUE, err |-> "", rfm |-> <<>>]
NoScores == [ok |-> TRUE, val |-> <<>>]

IdleScore == metric = "Recency" /\ series = <<>> /\ scored = FALSE /\ scores = NoScores
IdleSeg == rfmIn = <<1, 1, 1>> /\ segOut = ""
IdleTable == df = <<>> /\ phase = "load" /\ result = NoResult
IdleCohort == cohort = NoCohort
IdleDash == dataset = <<>> /\ store = None /\ tab = "overview-tab" /\ view = NoView
IdleFrame == passed = Frame("datetime64[ns]") /\ again = NoResult
IdleMon == operation_times = <<>> /\ error_counts = <<>> /\ calls = <<>>
IdleAux == logged = <<>> /\ memo = {} /\ segAlt = "" /\ IdleMon

Init == IdleTable /\ IdleScore /\ IdleSeg /\ IdleCohort /\ IdleDash /\ IdleFrame /\ IdleAux

Last(d) == d[Len(d)]

\* a row of a new invoice: the next invoice number, dated on the day of the
\* previous invoice or the day after; the customers are numbered in the
\* order of their first invoice
NewInvoice(c, gap, a) ==
    /\ phase = "load"
    /\ Len(df) < MaxRows
    /\ c <= 1 + SetMax({0} \cup {df[i].CustomerID : i \in DOMAIN df})
    /\ df' = Append(df,
                [InvoiceNo |-> IF df = <<>> THEN 1 ELSE Last(df).InvoiceNo + 1,
                 CustomerID |-> c,
                 InvoiceDate |-> IF df = <<>> THEN 0
                                 ELSE Last(df).InvoiceDate + gap * TicksPerDay,
                 TotalAmount |-> a])
    /\ UNCHANGED <<phase, result, cohort, scoreVars, segVars, dashVars, frameVars, auxVars>>

\* a further line item of the last invoice
AddLine(a) ==
    /\ phase = "load"
    /\ df # <<>>
    /\ Len(df) < MaxRows
    /\ df' = Append(df, [Last(df) EXCEPT !.TotalAmount = a])
    /\ UNCHANGED <<phase, result, cohort, scoreVars, segVars, dashVars, frameVars, auxVars>>

\* rfm_df = calculate_rfm_scores(df), and the same call once more on the
\* table the first call left behind
CalculateRFM ==
    /\ phase = "load" \/ (phase = "done" /\ cohort.fn = "")
    /\ \E rfm_df \in {calculate_rfm_scores(df)} :
          IF phase = "load"
          THEN phase' = "done" /\ result' = rfm_df /\ again' = again
          ELSE phase' = "again" /\ again' = rfm_df /\ result' = result
    /\ passed' = rfm_caller_frame(passed)
    /\ UNCHANGED <<df, cohort, scoreVars, segVars, dashVars, auxVars>>

Next ==
    \/ \E c \in CustomerIDs, gap \in 0..1, a \in Amounts : NewInvoice(c, gap, a)
    \/ \E a \in Amounts : AddLine(a)
    \/ CalculateRFM

Spec == Init /\ [][Next]_vars

(***************************************************************************)
(* Specification SpecDays: calculate_rfm_scores called on tables whose     *)
(* invoices carry arbitrary timestamps, in no chronological order.         *)
(* Customer 1 has two invoices, every other customer one; each invoice is  *)
(* one line of amount 10.                                                  *)
(***************************************************************************)
DayTable(n, ts) ==
    [i \in 1..(n + 1) |->
        [InvoiceNo |-> i,
         CustomerID |-> IF i <= 2 THEN 1 ELSE i - 1,
         InvoiceDate |-> ts[i],
         TotalAmount |-> 10]]

\* the tables of n customers
DayTables(n) == {DayTable(n, ts) : ts \in [1..(n + 1) -> 0..MaxTick]}

InitDays ==
    /\ IdleScore /\ IdleSeg /\ IdleCohort /\ IdleDash /\ IdleFrame /\ IdleAux
    /\ \E n \in 2..MaxCust : df \in DayTables(n)
    /\ phase = "load"
    /\ result = NoResult

NextDays == CalculateRFM

SpecDays == InitDays /\ [][NextDays]_vars

(***************************************************************************)
(* Specification SpecCohort: calculate_rfm_scores and the cohort            *)
(* computation called on tables, the table of no rows among them, of       *)
(* one-line invoices dated 1 January, 31 January, 1 February, 31 March     *)
(* and 1 January of the next year.                                         *)
(***************************************************************************)
\* the days, counted from 1 January, of the invoices
CohortDays == {0, 30, 31, 89, 365}

\* the invoice lines are in invoice-date order
Chronological(n) ==
    {ds \in [1..n -> CohortDays] : \A i \in 1..(n - 1) : ds[i] <= ds[i + 1]}

\* the customers are numbered in the order of their first invoice
FirstSeen(n) ==
    {cs \in [1..n -> CustomerIDs] :
        \A i \in 1..n : cs[i] <= 1 + SetMax({0} \cup {cs[j] : j \in 1..(i - 1)})}

CohortTables ==
    UNION {{[i \in 1..n |->
                [InvoiceNo |-> i,
                 CustomerID |-> cs[i],
                 InvoiceDate |-> ds[i] * TicksPerDay,
                 TotalAmount |-> 10]] :
            cs \in FirstSeen(n), ds \in Chronological(n)} :
           n \in 0..MaxCohortRows}

InitCohort ==
    /\ IdleScore /\ IdleSeg /\ IdleCohort /\ IdleDash /\ IdleAux
    /\ again = NoResult
    /\ passed \in {Frame(dtype) : dtype \in Dtypes}
    /\ df \in CohortTables
    /\ phase = "load"
    /\ result = NoResult

\* create_cohort_chart(get_cohort_data(df))
GetCohortData ==
    /\ phase = "load"
    /\ phase' = "done"
    /\ cohort' \in get_cohort_data(df)
    /\ passed' = cohort_caller_frame(passed)
    /\ UNCHANGED <<df, result, again, scoreVars, segVars, dashVars, auxVars>>

\* the callback of the cohort chart, filtered_data not None
UpdateCohortAnalysis(m) ==
    /\ phase = "load"
    /\ phase' = "done"
    /\ cohort' \in update_cohort_analysis(df, m)
    /\ UNCHANGED <<df, result, scoreVars, segVars, dashVars, frameVars, auxVars>>

NextCohort ==
    \/ CalculateRFM
    \/ GetCohortData
    \/ \E m \in CohortMetrics : UpdateCohortAnalysis(m)

SpecCohort == InitCohort /\ [][NextCohort]_vars

(***************************************************************************)
(* Specification SpecShuffle: calculate_rfm_scores called on a table, and  *)
(* once more after the rows of the table were put in another order.        *)
(* Customer 1 has all invoice lines but the last two, customers 2 and 3    *)
(* one line each; customer c buys on day c - 1.  A line amounts to 1 or to *)
(* a sum that leaves no bit of the float to spare for the 1.               *)
(***************************************************************************)
ShuffleAmounts == {1, 3 * 2^(MantissaBits - 1)}

ShuffleTable(n, as) ==
    [i \in 1..n |->
        LET c == IF i <= n - 2 THEN 1 ELSE i - (n - 3)
        IN  [InvoiceNo |-> i,
             CustomerID |-> c,
             InvoiceDate |-> (c - 1) * TicksPerDay,
             TotalAmount |-> as[i]]]

ShuffleTables ==
    UNION {{ShuffleTable(n, as) : as \in [1..n -> ShuffleAmounts]} : n \in 3..MaxShuffleRows}

InitShuffle ==
    /\ IdleScore /\ IdleSeg /\ IdleCohort /\ IdleDash /\ IdleFrame /\ IdleAux
    /\ df \in ShuffleTables
    /\ phase = "load"
    /\ result = NoResult

\* the rows i and i + 1 of the table change places between the two calls
Shuffle(i) ==
    /\ phase = "done"
    /\ i < Len(df)
    /\ df' = [df EXCEPT ![i] = df[i + 1], ![i + 1] = df[i]]
    /\ UNCHANGED <<phase, result, cohort, scoreVars, segVars, dashVars, frameVars, auxVars>>

NextShuffle ==
    \/ CalculateRFM
    \/ \E i \in 1..(MaxShuffleRows - 1) : Shuffle(i)

SpecShuffle == InitShuffle /\ [][NextShuffle]_vars

(***************************************************************************)
(* Specification SpecDash: the data file is loaded, the store is filled,   *)
(* the user changes filters and tabs, and the callbacks of the customer    *)
(* charts run on the data of the store.  Of the five tabs the customers    *)
(* tab and one other are kept: the other four never reach the engine.      *)
(* The memoisation of create_customer_summary is left out: every call      *)
(* computes.                                                               *)
(***************************************************************************)
InitDash ==
    /\ IdleScore /\ IdleSeg /\ IdleCohort /\ IdleFrame /\ IdleAux
    /\ dataset \in {load_initial_data(file) : file \in Files}
    /\ store = None
    /\ tab = "overview-tab"
    /\ view = NoView
    /\ df = <<>>
    /\ phase = "load"
    /\ result = NoResult

\* the store was written: no callback has run on its data yet
StoreWritten ==
    /\ view' = NoView
    /\ df' = <<>>
    /\ phase' = "load"
    /\ result' = NoResult
    /\ cohort' = NoCohort

\* a callback that returns before it reads the store
NoDataView(caller, out) ==
    /\ view' = [caller |-> caller, out |-> out, engine |-> {}]
    /\ df' = <<>>
    /\ phase' = "load"
    /\ result' = NoResult
    /\ cohort' = NoCohort

\* initialize_store(start_date, current_data)
InitializeStore ==
    /\ store' = IF store = None THEN initial_filtered_data(dataset) ELSE store
    /\ StoreWritten
    /\ UNCHANGED <<scoreVars, segVars, dataset, tab, frameVars, auxVars>>

\* update_filtered_data(start_date, end_date, countries, *args)
UpdateFilteredData(trigger, start, end, countries) ==
    /\ start <= end
    /\ store' = update_filtered_data(dataset, store, trigger, start, end, countries)
    /\ StoreWritten
    /\ UNCHANGED <<scoreVars, segVars, dataset, tab, frameVars, auxVars>>

\* update_tab_content(active_tab, filtered_data) on a tab other than the
\* customers tab: the summaries of the other tabs, whose exception becomes
\* the "Error loading content" page
UpdateTabContent(t) ==
    /\ tab' = t
    /\ IF store = None
       THEN NoDataView("update_tab_content", "No data available")
       ELSE /\ df' = read_json(store)
            /\ phase' = "load"
            /\ result' = NoResult
            /\ cohort' = NoCohort
            /\ \E out \in {"content", "Error loading content"} :
                  view' = [caller |-> "update_tab_content", out |-> out,
                           engine |-> {}]
    /\ UNCHANGED <<scoreVars, segVars, dataset, store, frameVars, auxVars>>

\* the callbacks that call calculate_rfm_scores on the frame of the store
\* unless the store is None: update_tab_content on the customers tab
\* (create_customer_summary, which goes on to get_cohort_data),
\* update_rfm_distribution and update_customer_segments
RfmCallbacks ==
    {"update_tab_content", "update_rfm_distribution", "update_customer_segments"}

UpdateRfmChart(caller) ==
    /\ tab' = IF caller = "update_tab_content" THEN "customers-tab" ELSE tab
    /\ IF store = None
       THEN NoDataView(caller, IF caller = "update_tab_content"
                               THEN "No data available" ELSE "None")
       ELSE /\ df' = read_json(store)
            /\ phase' = "done"
            /\ result' = calculate_rfm_scores(df')
            /\ IF caller # "update_tab_content"
               THEN /\ cohort' = NoCohort
                    /\ view' = [caller |-> caller,
                                out |-> IF result'.ok THEN "content" ELSE "exception",
                                engine |-> {"calculate_rfm_scores"}]
               ELSE IF ~result'.ok
               THEN /\ cohort' = NoCohort
                    /\ view' = [caller |-> caller,
                                out |-> "Error loading content",
                                engine |-> {"calculate_rfm_scores"}]
               ELSE /\ cohort' \in get_cohort_data(df')
                    /\ \E out \in {"content", "Error loading content"} :
                          /\ ~cohort'.ok => out = "Error loading content"
                          /\ view' = [caller |-> caller, out |-> out,
                                      engine |-> {"calculate_rfm_scores",
                                                  "get_cohort_data"}]
    /\ UNCHANGED <<scoreVars, segVars, dataset, store, frameVars, auxVars>>

\* update_cohort_analysis(filtered_data, metric) on the data of the store
CohortChart(m) ==
    /\ IF store = None
       THEN NoDataView("update_cohort_analysis", "None")
       ELSE /\ df' = read_json(store)
            /\ phase' = "done"
            /\ result' = NoResult
            /\ cohort' \in update_cohort_analysis(df', m)
            /\ view' = [caller |-> "update_cohort_analysis",
                        out |-> IF cohort'.ok THEN "content" ELSE "exception",
                        engine |-> {"update_cohort_analysis"}]
    /\ UNCHANGED <<scoreVars, segVars, dataset, store, tab, frameVars, auxVars>>

NextDash ==
    \/ InitializeStore
    \/ \E trigger \in Filters, start, end \in PickDates(dataset),
          countries \in CountryChoices :
          UpdateFilteredData(trigger, start, end, countries)
    \/ \E trigger \in QuickRanges, countries \in CountryChoices :
          UpdateFilteredData(trigger, MinDate(dataset), MaxDate(dataset), countries)
    \/ \E t \in Tabs \ {"customers-tab"} : UpdateTabContent(t)
    \/ \E caller \in RfmCallbacks : UpdateRfmChart(caller)
    \/ \E m \in CohortMetrics : CohortChart(m)

SpecDash == InitDash /\ [][NextDash]_vars

(***************************************************************************)
(* Specification SpecCache: create_customer_summary behind                 *)
(* @cache.memoize(timeout=300).  memoize builds the key of a call from the *)
(* name of the function and the arguments of the call (a digest of them,   *)
(* taken here to be free of collisions), returns the stored value when the *)
(* cache has the key, and otherwise calls the function and stores what it  *)
(* returned; an exception is not stored.  An entry leaves the cache when   *)
(* its timeout has passed or the cache is pruned.  The data files hold     *)
(* MaxCacheRows lines, each a sale to customer 1 or 2.                     *)
(***************************************************************************)
\* a key made of the name of the function alone
MemoKeyOfFunction(fname, filtered_data) == <<fname, None>>

\* the key of create_customer_summary(filtered_data)
MemoKey(fname, filtered_data) == <<fname, filtered_data>>

SaleFiles ==
    {[i \in 1..MaxCacheRows |-> FileRow(i, ks[i])] :
        ks \in {k \in [1..MaxCacheRows -> {"sale1", "sale2"}] : k[1] = "sale1"}}

InitCache ==
    /\ IdleScore /\ IdleSeg /\ IdleCohort /\ IdleFrame /\ IdleAux
    /\ dataset \in {load_initial_data(file) : file \in SaleFiles}
    /\ store = None
    /\ tab = "overview-tab"
    /\ view = NoView
    /\ df = <<>>
    /\ phase = "load"
    /\ result = NoResult

\* create_customer_summary(filtered_data) as update_tab_content calls it on
\* the customers tab; df, result and cohort are what the returned view shows
CustomerSummary ==
    /\ store # None
    /\ LET key == MemoKey("create_customer_summary", store)
           found == {entry \in memo : entry.key = key}
       IN  /\ found # {} \/ Cardinality(memo) < MaxMemo
           /\ phase' = "done"
           /\ IF found # {}
              THEN \E entry \in found :
                      /\ df' = entry.table
                      /\ result' = entry.result
                      /\ cohort' = entry.cohort
                      /\ view' = [caller |-> "create_customer_summary",
                                  out |-> "cached", engine |-> {}]
                      /\ memo' = memo
              ELSE /\ df' = read_json(store)
                   /\ result' = calculate_rfm_scores(df')
                   /\ IF ~result'.ok
                      THEN /\ cohort' = NoCohort
                           /\ view' = [caller |-> "create_customer_summary",
                                       out |-> "exception",
                                       engine |-> {"calculate_rfm_scores"}]
                           /\ memo' = memo
                      ELSE /\ cohort' \in get_cohort_data(df')
                           /\ view' = [caller |-> "create_customer_summary",
                                       out |-> IF cohort'.ok THEN "content" ELSE "exception",
                                       engine |-> {"calculate_rfm_scores", "get_cohort_data"}]
                           /\ memo' = IF cohort'.ok
                                      THEN memo \cup {[key |-> key, table |-> df',
                                                       result |-> result', cohort |-> cohort']}
                                      ELSE memo
    /\ tab' = "customers-tab"
    /\ UNCHANGED <<scoreVars, segVars, dataset, store, frameVars, logged, segAlt, monVars>>

\* the timeout of an entry has passed, or the cache has pruned it
Expire(entry) ==
    /\ entry \in memo
    /\ memo' = memo \ {entry}
    /\ UNCHANGED <<df, phase, result, cohort, scoreVars, segVars, dashVars, frameVars,
                   logged, segAlt, monVars>>

NextCache ==
    \/ InitializeStore
    \/ \E start, end \in PickDates(dataset) :
          UpdateFilteredData("date-filter", start, end, {})
    \/ \E trigger \in QuickRanges, countries \in CountryChoices :
          UpdateFilteredData(trigger, MinDate(dataset), MaxDate(dataset), countries)
    \/ CustomerSummary
    \/ \E entry \in memo : Expire(entry)

SpecCache == InitCache /\ [][NextCache]_vars

(***************************************************************************)
(* Specification SpecFilter: the store holds the loaded data, and          *)
(* update_filtered_data of filter_callbacks.py is invoked again and again  *)
(* on it.  A callback that raises leaves the store as it was.              *)
(***************************************************************************)
InitFilter ==
    /\ IdleScore /\ IdleSeg /\ IdleCohort /\ IdleTable /\ IdleFrame /\ IdleAux
    /\ dataset \in {load_initial_data(file) : file \in Files}
    /\ store = initial_filtered_data(dataset)
    /\ tab = "overview-tab"
    /\ view = NoView

FilterStore(trigger, start, end, countries) ==
    /\ LET r == filter_update_filtered_data(dataset, store, trigger, start, end, countries)
       IN  /\ store' = IF r.raised THEN store ELSE r.data
           /\ view' = [caller |-> "filter_callbacks.update_filtered_data",
                       out |-> IF r.raised THEN r.err ELSE trigger,
                       engine |-> {}]
    /\ UNCHANGED <<df, phase, result, cohort, scoreVars, segVars, dataset, tab,
                   frameVars, auxVars>>

NextFilter ==
    \/ \E trigger \in QuickRanges \cup {""}, countries \in CountryChoices :
           FilterStore(trigger, Unset, Unset, countries)
    \/ \E trigger \in FilterTriggers \ QuickRanges,
          start \in PickDates(dataset), end \in PickDates(dataset),
          countries \in CountryChoices :
           start <= end /\ FilterStore(trigger, start, end, countries)
    \/ \E trigger \in FilterTriggers \ QuickRanges,
          start \in PickDates(dataset) \cup {Unset} :
           FilterStore(trigger, start, Unset, {})

SpecFilter == InitFilter /\ [][NextFilter]_vars

(***************************************************************************)
(* Specification SpecScore: score_values applied to one column of rfm.     *)
(* The column is listed in increasing order of its values: unique, rank    *)
(* and quantile do not depend on the order of the series.                  *)
(***************************************************************************)
Metrics == {"Recency", "Frequency", "Monetary"}

\* the columns rfm can hold: Recency has minimum 0 (the customer of the
\* latest invoice), Frequency is at least 1, Monetary is positive
SeriesOf(m) ==
    LET sorted == UNION {{s \in [1..n -> 0..MaxValue] :
                             \A i \in 1..(n - 1) : s[i] <= s[i + 1]} : n \in 1..MaxSeries}
    IN  IF m = "Recency" THEN {s \in sorted : s[1] = 0}
        ELSE {[i \in DOMAIN s |-> s[i] + 1] : s \in sorted}

\* lines 102-104: ascending=False for Recency only
AscendingOf(m) == m # "Recency"

InitScore ==
    /\ IdleTable /\ IdleSeg /\ IdleCohort /\ IdleDash /\ IdleFrame /\ IdleAux
    /\ metric \in Metrics
    /\ series \in SeriesOf(metric)
    /\ scored = FALSE
    /\ scores = NoScores

ScoreSeries ==
    /\ ~scored
    /\ scored' = TRUE
    /\ scores' = score_values(series, AscendingOf(metric))
    /\ logged' = logged \o score_values_log(series, AscendingOf(metric))
    /\ UNCHANGED <<df, phase, result, cohort, metric, series, segVars, dashVars, frameVars,
                   memo, segAlt, monVars>>

NextScore == ScoreSeries

SpecScore == InitScore /\ [][NextScore]_vars

(***************************************************************************)
(* Specification SpecSeg: segment_customers applied to one score triple.   *)
(***************************************************************************)
ScoreRange == 1..5

InitSeg ==
    /\ IdleTable /\ IdleScore /\ IdleCohort /\ IdleDash /\ IdleFrame /\ IdleAux
    /\ rfmIn \in ScoreRange \X ScoreRange \X ScoreRange
    /\ segOut = ""

Classify ==
    /\ segOut = ""
    /\ segOut' = segment_customers(rfmIn[1], rfmIn[2], rfmIn[3])
    /\ UNCHANGED <<df, phase, result, cohort, scoreVars, rfmIn, dashVars, frameVars, auxVars>>

\* rfm.apply(get_segment, axis=1) of calculate_rfm_metrics on the same row
GetSegment ==
    /\ segAlt = ""
    /\ segAlt' = get_segment(rfmIn[1], rfmIn[2], rfmIn[3])
    /\ UNCHANGED <<df, phase, result, cohort, scoreVars, segVars, dashVars, frameVars,
                   logged, memo, monVars>>

NextSeg == Classify \/ GetSegment

SpecSeg == InitSeg /\ [][NextSeg]_vars

(***************************************************************************)
(* DashboardMonitor and monitor_callback.  The two dictionaries of the     *)
(* monitor are functions on the operation names that have an entry.        *)
(***************************************************************************)
\* d.get(key, default) and d[key] = value
Get(d, key, default) == IF key \in DOMAIN d THEN d[key] ELSE default
Set(d, key, value) ==
    [k \in DOMAIN d \cup {key} |-> IF k = key THEN value ELSE d[k]]

\* log_performance: the entry of the operation is overwritten
log_performance(times, operation, execution_time) == Set(times, operation, execution_time)

\* log_error with the count set to 1 instead of incremented
log_error_first_only(counts, operation) == Set(counts, operation, 1)

\* log_error: the count of the operation, 0 when it has no entry, plus one
log_error(counts, operation) == Set(counts, operation, Get(counts, operation, 0) + 1)

\* the names (func.__name__) of the wrapped functions
Operations == {"update_tab_content", "other_callback"}

\* what a call of the wrapped function can do: return a value, raise an
\* exception of a subclass of Exception, or raise one that derives from
\* BaseException only, which `except Exception` does not catch
Returns == {[raised |-> FALSE, value |-> v] : v \in {"content", "no data"}}
Raises == {[raised |-> TRUE, value |-> x] : x \in {"ValueError", "KeyboardInterrupt"}}
IsException(x) == x \notin {"KeyboardInterrupt", "SystemExit", "GeneratorExit"}

\* time.time() - start_time of a call that returned
Durations == {1, 2}

(***************************************************************************)
(* Specification SpecMonitor: a sequence of calls of functions wrapped by  *)
(* monitor_callback, one after the other.                                  *)
(***************************************************************************)
InitMonitor ==
    /\ IdleTable /\ IdleScore /\ IdleSeg /\ IdleCohort /\ IdleDash /\ IdleFrame
    /\ logged = <<>> /\ memo = {} /\ segAlt = ""
    /\ operation_times = <<>>
    /\ error_counts = <<>>
    /\ calls = <<>>

\* wrapper(*args, **kwargs): what the wrapped function does is behaviour;
\* out is what the caller of the wrapper gets
MonitoredCall(operation, behaviour, execution_time) ==
    /\ Len(calls) < MaxCalls
    /\ IF ~behaviour.raised
       THEN /\ operation_times' = log_performance(operation_times, operation, execution_time)
            /\ error_counts' = error_counts
       ELSE IF IsException(behaviour.value)
       THEN /\ error_counts' = log_error(error_counts, operation)
            /\ operation_times' = operation_times
       ELSE UNCHANGED <<operation_times, error_counts>>
    /\ calls' = Append(calls, [operation |-> operation,
                               raised |-> behaviour.raised,
                               value |-> behaviour.value,
                               time |-> execution_time,
                               out |-> behaviour])
    /\ UNCHANGED <<df, phase, result, cohort, scoreVars, segVars, dashVars, frameVars,
                   logged, memo, segAlt>>

NextMonitor ==
    \E operation \in Operations, behaviour \in Returns \cup Raises, t \in Durations :
        MonitoredCall(operation, behaviour, t)

SpecMonitor == InitMonitor /\ [][NextMonitor]_vars

(***************************************************************************)
(* Claims.                                                                 *)
(***************************************************************************)
Labels == {"Champions", "Loyal Customers", "Active Customers",
           "Regular Customers", "New Customers", "At Risk"}

InputCustomers == {df[i].CustomerID : i \in DOMAIN df}

\* the rows of the returned table that belong to customer c
ResultRows(c) == {k \in DOMAIN result.rfm : result.rfm[k].CustomerID = c}

\* C1: for every non-empty transaction table calculate_rfm_scores returns a
\* table in which every customer's R_Score, F_Score and M_Score is an integer
\* of 1..5.
C1_ScoresInRange ==
    phase = "done" =>
        /\ result.ok
        /\ \A c \in InputCustomers : ResultRows(c) # {}
        /\ \A k \in DOMAIN result.rfm :
              /\ result.rfm[k].R_Score \in ScoreRange
              /\ result.rfm[k].F_Score \in ScoreRange
              /\ result.rfm[k].M_Score \in ScoreRange

\* C2: among the scores score_values returns for the Recency column, a
\* customer with a smaller Recency never has a smaller R_Score.
C2_RecencyMonotone ==
    (scored /\ metric = "Recency" /\ scores.ok) =>
        \A i, j \in DOMAIN series :
            series[i] < series[j] => scores.val[i] >= scores.val[j]

\* C3: among the scores score_values returns for the Frequency or the
\* Monetary column, a customer with a larger raw value never has a smaller
\* score.
C3_FrequencyMonetaryMonotone ==
    (scored /\ metric \in {"Frequency", "Monetary"} /\ scores.ok) =>
        \A i, j \in DOMAIN series :
            series[i] > series[j] => scores.val[i] >= scores.val[j]

\* Monetary took the quantile cut and two customers got different scores
C3_Witness ==
    /\ scored /\ metric = "Monetary" /\ scores.ok
    /\ NUnique(series) >= 5
    /\ \E i, j \in DOMAIN series :
          series[i] > series[j] /\ scores.val[i] > scores.val[j]

\* the ordered rule list of the claim: label, least r, least f, least m
\* (1, the least score, where the rule does not test the score)
SegmentRules ==
    << <<"Champions", 4, 4, 4>>,
       <<"Loyal Customers", 3, 3, 3>>,
       <<"Active Customers", 3, 1, 2>>,
       <<"Regular Customers", 2, 2, 2>>,
       <<"New Customers", 2, 1, 1>> >>

RuleMatches(n, t) ==
    t[1] >= SegmentRules[n][2] /\ t[2] >= SegmentRules[n][3] /\ t[3] >= SegmentRules[n][4]

FirstMatch(t) ==
    IF \E n \in DOMAIN SegmentRules : RuleMatches(n, t)
    THEN LET n == CHOOSE n \in DOMAIN SegmentRules :
                     /\ RuleMatches(n, t)
                     /\ \A p \in 1..(n - 1) : ~RuleMatches(p, t)
         IN  SegmentRules[n][1]
    ELSE "At Risk"

\* C4: for every triple of 1..5 segment_customers returns the label of the
\* first matching rule of the ordered list, At Risk when none matches; the
\* triple (4,4,2) is an Active Customer.
C4_FirstMatchingRule ==
    segOut # "" =>
        /\ segOut \in Labels
        /\ segOut = FirstMatch(rfmIn)
        /\ (rfmIn = <<4, 4, 2>> => segOut = "Active Customers")

C4_Witness == rfmIn = <<4, 4, 2>> /\ segOut = "Active Customers"

\* the customers of the input all share one value of the column
AllShare(name) ==
    \A k \in DOMAIN Aggregate(df) : Aggregate(df)[k][name] = Aggregate(df)[1][name]

\* C5: when all customers share the value of a metric, calculate_rfm_scores
\* does not raise and returns a score of 1..5 and a segment for every
\* customer.
C5_DegenerateMetricScored ==
    (phase = "done" /\ (AllShare("Recency") \/ AllShare("Frequency") \/ AllShare("Monetary"))) =>
        /\ result.ok
        /\ \A c \in InputCustomers : ResultRows(c) # {}
        /\ \A k \in DOMAIN result.rfm :
              /\ AllShare("Recency") => result.rfm[k].R_Score \in ScoreRange
              /\ AllShare("Frequency") => result.rfm[k].F_Score \in ScoreRange
              /\ AllShare("Monetary") => result.rfm[k].M_Score \in ScoreRange
              /\ result.rfm[k].Customer_Segment \in Labels

\* the series as the try block hands it to pd.qcut
CutInput == IF AscendingOf(metric) THEN series ELSE Neg(series)

\* C6: when a metric has 5 or more distinct values and its quantile edges
\* collide, score_values returns a score of 1..5 for every customer and does
\* not raise.
C6_CollidingEdgesScored ==
    (scored /\ NUnique(series) >= 5 /\ EdgesCollide(CutInput)) =>
        /\ scores.ok
        /\ DOMAIN scores.val = DOMAIN series
        /\ \A i \in DOMAIN series : scores.val[i] \in ScoreRange

\* the bucket of percentile rank 100 * r / n: <=20 -> 1, <=40 -> 2, <=60 -> 3,
\* <=80 -> 4, above -> 5
PctBucket(r, n) ==
    IF 5 * r <= n THEN 1
    ELSE IF 5 * r <= 2 * n THEN 2
    ELSE IF 5 * r <= 3 * n THEN 3
    ELSE IF 5 * r <= 4 * n THEN 4
    ELSE 5

\* the positions customer i can take in the sorted metric, ties in any order
SortedPositions(s, i, ascending) ==
    LET before == IF ascending
                  THEN Cardinality({j \in DOMAIN s : s[j] < s[i]})
                  ELSE Cardinality({j \in DOMAIN s : s[j] > s[i]})
        ties == Cardinality({j \in DOMAIN s : s[j] = s[i]})
    IN  (before + 1)..(before + ties)

\* the scores the claim allows customer i: the bucket of its percentile rank;
\* for Recency the buckets flipped, or the rank taken from the largest down
BucketScores(s, i, ascending) ==
    IF ascending
    THEN {PctBucket(r, Len(s)) : r \in SortedPositions(s, i, TRUE)}
    ELSE {6 - PctBucket(r, Len(s)) : r \in SortedPositions(s, i, TRUE)}
         \cup {PctBucket(r, Len(s)) : r \in SortedPositions(s, i, FALSE)}

\* C7: the scores score_values returns without an exact quantile cut are the
\* buckets of the customers' percentile ranks under the thresholds 20, 40,
\* 60, 80, flipped for Recency.
C7_RankPathIsPercentileBucket ==
    (scored /\ scores.ok /\ NUnique(series) < 5) =>
        \A i \in DOMAIN series :
            scores.val[i] \in BucketScores(series, i, AscendingOf(metric))

\* C8: when the dense-rank scaling is undefined (max_rank - 1 = 0) every
\* customer's score is the middle score 3, and score_values does not raise.
C8_UndefinedDefaultsToThree ==
    (scored /\ NUnique(series) = 1) =>
        /\ scores.ok
        /\ DOMAIN scores.val = DOMAIN series
        /\ \A i \in DOMAIN series : scores.val[i] = 3

\* two different customers of the input have the same value of the column
Tied(a, b, name) ==
    /\ a # b
    /\ Aggregate(df)[a][name] = Aggregate(df)[b][name]

ScoreOf(c, name) == result.rfm[CHOOSE k \in ResultRows(c) : TRUE][name]

\* C9: two customers with the same raw value of a metric receive the same
\* score for that metric.
C9_TiesShareScore ==
    phase = "done" =>
        \A a, b \in DOMAIN Aggregate(df) :
            LET ca == Aggregate(df)[a].CustomerID
                cb == Aggregate(df)[b].CustomerID
                same(name, score) ==
                    Tied(a, b, name) =>
                        /\ result.ok
                        /\ ResultRows(ca) # {} /\ ResultRows(cb) # {}
                        /\ ScoreOf(ca, score) = ScoreOf(cb, score)
            IN  /\ same("Recency", "R_Score")
                /\ same("Frequency", "F_Score")
                /\ same("Monetary", "M_Score")

\* C10: the returned table has exactly one row for every CustomerID of the
\* input and no row for any other customer.
C10_OneRowPerCustomer ==
    (phase = "done" /\ result.ok) =>
        /\ \A c \in InputCustomers : Cardinality(ResultRows(c)) = 1
        /\ \A k \in DOMAIN result.rfm : result.rfm[k].CustomerID \in InputCustomers

\* a table was returned for an input in which a customer has two invoices
\* and an invoice has two line items
C10_Witness ==
    /\ phase = "done" /\ result.ok
    /\ \E k \in DOMAIN result.rfm : result.rfm[k].Frequency >= 2
    /\ \E i, j \in DOMAIN df : i # j /\ df[i].InvoiceNo = df[j].InvoiceNo
    /\ Cardinality(InputCustomers) >= 2

\* the latest InvoiceDate of customer c, and of the whole input
LatestOf(c) == SetMax({df[i].InvoiceDate : i \in {j \in DOMAIN df : df[j].CustomerID = c}})
LatestOfAll == SetMax({df[i].InvoiceDate : i \in DOMAIN df})

\* C11: every customer's Recency is the whole number of days from the
\* customer's latest invoice to the latest invoice of the input: never
\* negative, and 0 for the customer of the latest invoice.
C11_RecencyWholeDays ==
    (phase = "done" /\ result.ok) =>
        \A k \in DOMAIN result.rfm :
            LET r == result.rfm[k].Recency
                elapsed == LatestOfAll - LatestOf(result.rfm[k].CustomerID)
            IN  /\ r >= 0
                /\ r * TicksPerDay <= elapsed
                /\ elapsed < (r + 1) * TicksPerDay
                /\ (elapsed = 0 => r = 0)

\* a returned Recency of 1 for a customer whose latest invoice is more than
\* one day and less than two days before the latest of the input
C11_Witness ==
    /\ phase = "done" /\ result.ok
    /\ \E k \in DOMAIN result.rfm :
          /\ result.rfm[k].Recency = 1
          /\ LatestOfAll - LatestOf(result.rfm[k].CustomerID) > TicksPerDay
    /\ \E k \in DOMAIN result.rfm : result.rfm[k].Recency = 0

\* the rows of customer c that open an invoice: no earlier row of the
\* customer has their InvoiceNo
OpeningRows(c) ==
    {i \in DOMAIN df :
        /\ df[i].CustomerID = c
        /\ \A j \in 1..(i - 1) :
              ~(df[j].CustomerID = c /\ df[j].InvoiceNo = df[i].InvoiceNo)}

\* C12: every customer's Frequency is the number of distinct invoices among
\* the customer's rows, line items of one invoice counted once, and is at
\* least 1.
C12_FrequencyDistinctInvoices ==
    (phase = "done" /\ result.ok) =>
        \A k \in DOMAIN result.rfm :
            /\ result.rfm[k].Frequency = Cardinality(OpeningRows(result.rfm[k].CustomerID))
            /\ result.rfm[k].Frequency >= 1

\* a returned Frequency of 1 for a customer with two line items
C12_Witness ==
    /\ phase = "done" /\ result.ok
    /\ \E k \in DOMAIN result.rfm :
          /\ result.rfm[k].Frequency = 1
          /\ \E i, j \in DOMAIN df :
                /\ i # j
                /\ df[i].CustomerID = result.rfm[k].CustomerID
                /\ df[j].CustomerID = result.rfm[k].CustomerID

(***************************************************************************)
(* Claims on the cohort matrix.                                            *)
(***************************************************************************)
\* a retention matrix was returned
RetentionReturned == phase = "done" /\ cohort.ok /\ cohort.values = "CustomerID"

\* the lengths of the months of a 365-day year
MonthLengths == <<31, 28, 31, 30, 31, 30, 31, 31, 30, 31, 30, 31>>

RECURSIVE DaysBeforeMonth(_)
DaysBeforeMonth(m) == IF m = 1 THEN 0 ELSE DaysBeforeMonth(m - 1) + MonthLengths[m - 1]

\* year * 12 + month of a timestamp, from its calendar year and month
YearMonth(t) ==
    LET day == t \div TicksPerDay
        year == day \div 365
        month == CHOOSE m \in 1..12 :
                     /\ DaysBeforeMonth(m) <= day % 365
                     /\ day % 365 < DaysBeforeMonth(m) + MonthLengths[m]
    IN  year * 12 + month

FirstInvoice(c) == SetMin({df[i].InvoiceDate : i \in {j \in DOMAIN df : df[j].CustomerID = c}})

\* the customers whose first invoice is in month r, and those of them with a
\* transaction k months later
CohortMembers(r) == {c \in InputCustomers : YearMonth(FirstInvoice(c)) = r}
CohortActive(r, k) ==
    {c \in CohortMembers(r) :
        \E i \in DOMAIN df : df[i].CustomerID = c /\ YearMonth(df[i].InvoiceDate) = r + k}

\* the cell of the returned matrix; outside its rows and columns there is no
\* data
CellAt(r, k) ==
    IF r \in cohort.matrix.rows /\ k \in cohort.matrix.cols
    THEN cohort.matrix.cell[r, k] ELSE NullCell

\* C13: in every row of a returned retention matrix the offset-0 cell is
\* exactly 100.
C13_OffsetZeroIsHundred ==
    RetentionReturned =>
        /\ 0 \in cohort.matrix.cols
        /\ \A r \in cohort.matrix.rows :
              /\ ~cohort.matrix.cell[r, 0].null
              /\ cohort.matrix.cell[r, 0].den > 0
              /\ cohort.matrix.cell[r, 0].num = 100 * cohort.matrix.cell[r, 0].den

\* get_cohort_data returned a matrix with a cohort of two customers, one of
\* them retained
C13_Witness ==
    /\ RetentionReturned
    /\ cohort.fn = "get_cohort_data"
    /\ \E r \in cohort.matrix.rows, k \in cohort.matrix.cols :
          /\ k > 0
          /\ ~cohort.matrix.cell[r, k].null
          /\ 2 * cohort.matrix.cell[r, k].num = 100 * cohort.matrix.cell[r, k].den

\* C14: no cell of a returned retention matrix counts more customers than
\* the offset-0 cell of its row: no retention percentage exceeds 100.
C14_NeverAboveHundred ==
    RetentionReturned =>
        \A r \in cohort.matrix.rows, k \in cohort.matrix.cols :
            ~cohort.matrix.cell[r, k].null =>
                /\ cohort.matrix.cell[r, k].den > 0
                /\ cohort.matrix.cell[r, k].num <= 100 * cohort.matrix.cell[r, k].den
                /\ Cardinality(CohortActive(r, k)) <= Cardinality(CohortActive(r, 0))

\* a customer with two transactions in a later month of its cohort
C14_Witness ==
    /\ RetentionReturned
    /\ cohort.fn = "get_cohort_data"
    /\ \E i, j \in DOMAIN df :
          /\ i # j
          /\ df[i].CustomerID = df[j].CustomerID
          /\ YearMonth(df[i].InvoiceDate) = YearMonth(df[j].InvoiceDate)
          /\ YearMonth(df[i].InvoiceDate) > YearMonth(FirstInvoice(df[i].CustomerID))

\* C15: every present cell (c, k) of the matrix get_cohort_data returns is
\* 100 * (customers first invoiced in month c with a transaction in month
\* c + k) / (customers first invoiced in month c).
C15_CellIsRetentionShare ==
    (RetentionReturned /\ cohort.fn = "get_cohort_data") =>
        /\ cohort.matrix.rows = {r \in {YearMonth(df[i].InvoiceDate) : i \in DOMAIN df} :
                                    CohortMembers(r) # {}}
        /\ \A r \in cohort.matrix.rows, k \in cohort.matrix.cols :
              ~cohort.matrix.cell[r, k].null =>
                  cohort.matrix.cell[r, k].num * Cardinality(CohortMembers(r))
                      = 100 * Cardinality(CohortActive(r, k)) * cohort.matrix.cell[r, k].den

\* a cell of one half: a cohort of two customers, one of them with a
\* transaction in a later month
C15_Witness ==
    /\ RetentionReturned /\ cohort.fn = "get_cohort_data"
    /\ \E r \in cohort.matrix.rows, k \in cohort.matrix.cols \ {0} :
          /\ ~cohort.matrix.cell[r, k].null
          /\ Cardinality(CohortMembers(r)) = 2
          /\ Cardinality(CohortActive(r, k)) = 1
          /\ 2 * cohort.matrix.cell[r, k].num = 100 * cohort.matrix.cell[r, k].den

\* the offsets up to the largest of the matrix
OffsetRange == 0..SetMax(cohort.matrix.cols \cup {0})

\* C16: a cell (cohort, offset) of the matrix get_cohort_data returns holds a
\* value if and only if a customer of the cohort has a transaction at the
\* offset; a cell without data is null, never 0.
C16_SparseCells ==
    (RetentionReturned /\ cohort.fn = "get_cohort_data") =>
        \A r \in cohort.matrix.rows, k \in OffsetRange :
            /\ ~CellAt(r, k).null <=> CohortActive(r, k) # {}
            /\ ~CellAt(r, k).null => CellAt(r, k).num > 0

\* a customer invoiced in its cohort month and two months later, nobody of
\* the cohort in between: 100 at offset 2, no data at offset 1; and a later
\* cohort whose cell at offset 2 is stored as null
C16_Witness ==
    /\ RetentionReturned /\ cohort.fn = "get_cohort_data"
    /\ \E r \in cohort.matrix.rows :
          /\ Cardinality(CohortMembers(r)) = 1
          /\ ~CellAt(r, 2).null
          /\ CellAt(r, 2).num = 100 * CellAt(r, 2).den
          /\ CellAt(r, 1).null
    /\ \E r \in cohort.matrix.rows : cohort.matrix.cell[r, 2].null

\* the days 30 and 31 of the year: 31 January and 1 February
Jan31 == 30 * TicksPerDay
Feb1 == 31 * TicksPerDay

\* C17: every transaction is counted at the offset (year * 12 + month of the
\* transaction) - (year * 12 + month of the customer's first invoice); a first
\* invoice on 31 January and one on 1 February are one month apart, invoices
\* on 1 and 31 January none.
C17_CalendarMonthOffset ==
    (phase = "done" /\ cohort.fn # "" /\ cohort.ok) =>
        /\ \A i \in DOMAIN df :
              ~CellAt(YearMonth(FirstInvoice(df[i].CustomerID)),
                      YearMonth(df[i].InvoiceDate)
                          - YearMonth(FirstInvoice(df[i].CustomerID))).null
        /\ \A k \in cohort.matrix.cols :
              \E i \in DOMAIN df :
                  k = YearMonth(df[i].InvoiceDate) - YearMonth(FirstInvoice(df[i].CustomerID))
        /\ \A i \in DOMAIN df :
              (FirstInvoice(df[i].CustomerID) = Jan31 /\ df[i].InvoiceDate = Feb1)
                  => ~CellAt(YearMonth(Jan31), 1).null
        /\ (\A i \in DOMAIN df : df[i].InvoiceDate \in {0, Jan31})
              => cohort.matrix.cols = {0}

\* a matrix returned for a customer first invoiced on 31 January and again on
\* 1 February
C17_Witness ==
    /\ phase = "done" /\ cohort.ok /\ cohort.fn = "get_cohort_data"
    /\ \E i \in DOMAIN df :
          FirstInvoice(df[i].CustomerID) = Jan31 /\ df[i].InvoiceDate = Feb1
    /\ ~CellAt(YearMonth(Jan31), 1).null

(***************************************************************************)
(* Claims on a table of no rows.                                           *)
(***************************************************************************)
\* C18: called with a table of no rows, calculate_rfm_scores and
\* get_cohort_data each raise the empty-input error and return nothing.
C18_EmptyInputTypedError ==
    (phase = "done" /\ df = <<>>) =>
        /\ cohort.fn = "" => (~result.ok /\ result.err = "EmptyInputError")
        /\ cohort.fn = "get_cohort_data" =>
              (~cohort.ok /\ cohort.err = "EmptyInputError")

(***************************************************************************)
(* Claims on the dashboard.                                                *)
(***************************************************************************)
\* C19: after any sequence of filter changes and tab selections, no callback
\* has called calculate_rfm_scores or the cohort computation on a filtered
\* table of no rows.
C19_NoEngineOnEmptyTable == view.engine # {} => df # <<>>

\* C20: every row of the filtered-data store has Quantity > 0, UnitPrice > 0
\* and a CustomerID, and so has every row handed to the engine.
C20_StoreRowsValid ==
    /\ \A i \in DOMAIN store.data :
          /\ store.data[i].Quantity > 0
          /\ store.data[i].UnitPrice > 0
          /\ store.data[i].CustomerID # Null
    /\ view.engine # {} =>
          \A i \in DOMAIN df :
              df[i].Quantity > 0 /\ df[i].UnitPrice > 0 /\ df[i].CustomerID # Null

(***************************************************************************)
(* Claims on the caller's table.                                           *)
(***************************************************************************)
\* a step that is a call of calculate_rfm_scores, and one that is a call of
\* get_cohort_data
RfmCallStep == phase' # phase /\ cohort' = cohort
CohortCallStep == cohort' # cohort /\ cohort'.fn = "get_cohort_data"

C22_CohortIsPure ==
    [][CohortCallStep => (passed' = passed /\ df' = df)]_vars

(***************************************************************************)
(* Claims on the order of the rows.                                        *)
(***************************************************************************)
\* the scores and the segment of the customers of an RFM table
ScoresOf(r) ==
    [k \in DOMAIN r.rfm |->
        <<r.rfm[k].CustomerID, r.rfm[k].R_Score, r.rfm[k].F_Score,
          r.rfm[k].M_Score, r.rfm[k].Customer_Segment>>]

\* C23: the scores and the segment of a customer depend only on the multiset
\* of the rows of the table: calculate_rfm_scores on a permutation of the
\* rows gives every customer the same R, F and M score and the same segment.
C23_RowOrderIrrelevant ==
    phase = "again" =>
        /\ again.ok = result.ok
        /\ ScoresOf(again) = ScoresOf(result)

(***************************************************************************)
(* Claims on what score_values reports.                                    *)
(***************************************************************************)
\* C24: whenever score_values leaves the exact quantile cut and scores by
\* ranks (fewer than five distinct values, or the quantile cut raised), a log
\* record of the event exists by the time the scores are returned.
C24_FallbackIsLogged ==
    (scored /\ scores.ok /\ ScorePath(series, AscendingOf(metric)) # "qcut") =>
        logged # <<>>

(***************************************************************************)
(* Claims on the two classifiers.                                          *)
(***************************************************************************)
\* C26: get_segment of calculate_rfm_metrics and segment_customers return
\* the same label for every triple of scores in 1..5.
C26_ClassifiersAgree ==
    (segOut # "" /\ segAlt # "") => segAlt = segOut

\* C27: for triples of scores in 1..5 segment_customers returns At Risk
\* exactly when r = 1, Regular Customers only when r = 2, and each of the six
\* labels for at least one triple.
C27_LabelsByRecency ==
    /\ segOut # "" =>
          /\ segOut = "At Risk" <=> rfmIn[1] = 1
          /\ segOut = "Regular Customers" => rfmIn[1] = 2
    /\ \A l \in Labels :
          \E t \in ScoreRange \X ScoreRange \X ScoreRange :
              segment_customers(t[1], t[2], t[3]) = l

\* a Regular Customer was classified
C27_Witness == rfmIn = <<2, 2, 2>> /\ segOut = "Regular Customers"

(***************************************************************************)
(* Claims on the offsets and the cohort sizes.                             *)
(***************************************************************************)
\* C28: in get_cohort_data every MonthsFromFirstPurchase is 0 or more and
\* every customer has a transaction at offset 0 in exactly one cohort, so
\* every row of the matrix has an offset-0 count of 1 or more and the
\* normalisation of a row never divides by zero or by a missing value.
C28_CohortSizesPositive ==
    (phase = "done" /\ cohort.fn = "get_cohort_data" /\ cohort.ok) =>
        /\ \A k \in cohort.matrix.cols : k >= 0
        /\ \A i \in DOMAIN df :
              YearMonth(df[i].InvoiceDate) >= YearMonth(FirstInvoice(df[i].CustomerID))
        /\ \A c \in InputCustomers :
              Cardinality({r \in cohort.matrix.rows : c \in CohortActive(r, 0)}) = 1
        /\ \A r \in cohort.matrix.rows :
              /\ ~CellAt(r, 0).null
              /\ CellAt(r, 0).den >= 1
              /\ CellAt(r, 0).den = Cardinality(CohortActive(r, 0))
        /\ \A r \in cohort.matrix.rows, k \in cohort.matrix.cols :
              CellAt(r, k).null <=> CohortActive(r, k) = {}

\* a matrix of two cohorts, one of them with a customer who came back
C28_Witness ==
    /\ phase = "done" /\ cohort.fn = "get_cohort_data" /\ cohort.ok
    /\ Cardinality(cohort.matrix.rows) >= 2
    /\ \E r \in cohort.matrix.rows, k \in cohort.matrix.cols :
          k > 0 /\ ~CellAt(r, k).null

(***************************************************************************)
(* Claims on the monitor.                                                  *)
(***************************************************************************)
\* the calls of an operation so far that raised, and those of them that
\* raised an exception of a subclass of Exception
RaisedCalls(operation) ==
    {n \in DOMAIN calls : calls[n].operation = operation /\ calls[n].raised}
ExceptionCalls(operation) ==
    {n \in RaisedCalls(operation) : IsException(calls[n].value)}

\* the call a step makes
IsCall == calls' # calls
TheCall == calls'[Len(calls')]

\* C30: after any sequence of calls of a function wrapped by
\* monitor_callback, error_counts[name] is the number of the calls that
\* raised (no entry when none did).
C30_ErrorCountIsRaisedCalls ==
    \A operation \in Operations :
        Get(error_counts, operation, 0) = Cardinality(RaisedCalls(operation))

\* C30, amended: error_counts[name] is the number of the calls that raised an
\* exception of a subclass of Exception; a call that raises propagates the
\* same exception and leaves operation_times as it was; a call that returns
\* returns the result of the wrapped function, overwrites
\* operation_times[name] and leaves error_counts as it was.
C30_MonitorCounts ==
    /\ [](\A operation \in Operations :
            Get(error_counts, operation, 0) = Cardinality(ExceptionCalls(operation)))
    /\ [][IsCall =>
            /\ TheCall.out = [raised |-> TheCall.raised, value |-> TheCall.value]
            /\ TheCall.raised => operation_times' = operation_times
            /\ ~TheCall.raised =>
                  /\ error_counts' = error_counts
                  /\ TheCall.operation \in DOMAIN operation_times'
                  /\ operation_times'[TheCall.operation] = TheCall.time
                  /\ \A o \in DOMAIN operation_times' \ {TheCall.operation} :
                        o \in DOMAIN operation_times /\ operation_times'[o] = operation_times[o]]_vars

\* an operation raised ValueError twice and then returned
C30_Witness ==
    /\ Len(calls) = 3
    /\ \A n \in 1..2 : calls[n].operation = "update_tab_content" /\ calls[n].value = "ValueError"
    /\ calls[3].operation = "update_tab_content" /\ ~calls[3].raised
    /\ error_counts = [o \in {"update_tab_content"} |-> 2]
    /\ DOMAIN operation_times = {"update_tab_content"}

(***************************************************************************)
(* Claims on the filters.                                                  *)
(***************************************************************************)
\* the rows a value of the store holds
RowSet(j) == IF j.none THEN {} ELSE Range(j.data)

\* C29: update_filtered_data of filter_callbacks.py filters the rows the
\* store holds, not the full dataset: an invocation leaves the store with a
\* subset of the rows it held before, so no later filter, all-time
\* included, brings back a row an earlier filter removed.
C29_StoreOnlyShrinks ==
    [][RowSet(store') \subseteq RowSet(store)]_vars

\* all-time was pressed on a store from which a filter had removed rows
C29_Witness ==
    /\ view.caller = "filter_callbacks.update_filtered_data"
    /\ view.out = "all-time"
    /\ ~store.none
    /\ Len(store.data) >= 1
    /\ Len(store.data) < Len(dataset)

=============================================================================
